---- MODULE Spec2Model ----
(***************************************************************************)
(* Model of the tutorial scripts of wd-ai-agent-orchestration.  Each run   *)
(* executes one example script; a script declares agents / executors and   *)
(* hands them to one of two orchestration styles:                          *)
(*   - Flock: a blackboard; publishing a typed artifact schedules every    *)
(*     agent whose .consumes(type, where=...) matches it;                  *)
(*   - Agent Framework: a workflow graph; a message sent by an executor    *)
(*     follows the edges wired with WorkflowBuilder.                       *)
(* The replies of the language model are inputs: every reply of the        *)
(* declared output type is possible.                                       *)
(***************************************************************************)
EXTENDS Integers, Sequences, FiniteSets, TLC

VARIABLES
    script,     \* the example script this run executes
    pc,         \* position of the script's main()
    board,      \* Flock: the blackboard store, a set of artifacts
    tasks,      \* Flock: agent invocations scheduled and not yet run
    pool,       \* Flock: artifacts an AND-gate agent is still holding
    ran,        \* Flock: agent invocations that have run (history)
    runNo,      \* Agent Framework: number of workflow.run() calls started
    inflight,   \* Agent Framework: messages sent and not yet handled
    wfstate,    \* Agent Framework: the workflow state (ctx.set_state)
    fanin,      \* Agent Framework: responses a fan-in edge group has collected
    outputs,    \* Agent Framework: outputs yielded by the current run
    trace,      \* Agent Framework: executors run by the current run (history)
    printed,    \* what main() has printed for each workflow run
    env,        \* os.environ after load_dotenv(): variable name -> raw value
    client,     \* hello_agent.py: the client create_client() returned
    checks,     \* smoke_test.py: the check() calls made, in order
    all_passed, \* smoke_test.py: main()'s all_passed
    live        \* smoke_test.py: the live calls attempted, in order

flockVars == <<board, tasks, pool, ran>>
afVars == <<runNo, inflight, wfstate, fanin, outputs, trace, printed>>
envVars == <<env, client, checks, all_passed, live>>
vars == <<script, pc, board, tasks, pool, ran,
          runNo, inflight, wfstate, fanin, outputs, trace, printed,
          env, client, checks, all_passed, live>>

\* ------------------------------------------------------------------ bounds

\* Refiner invocations explored in one run of the feedback loop.
MaxRefinerRuns == 4
\* Largest iteration number the refiner's reply may carry.
MaxIterationValue == 4
\* SupportTicket artifacts published by one run of the routing script.
MaxTickets == 2
\* ProductInfo artifacts published by one run of the parallel script.
MaxProducts == 2
\* Calls of one agent executor explored in one workflow run.
MaxAgentCalls == 4
\* Length of the longest exception message a live call may raise.
MaxMessageLen == 121

\* --------------------------------------------------------------- constants

FlockQUALITY_THRESHOLD == 7
FlockMAX_ITERATIONS == 3
\* tickets = [T-001, T-002, T-003] of the Agent Framework routing script
NumTickets == 3

\* Quality scores the refiner's reply may carry (below, just below, at and
\* above the threshold).
QualityValues == {2, 6, 7, 9}

FlockScripts ==
    {"flock_loop", "flock_cond", "flock_fanout", "flock_parallel", "flock_pipeline"}
AFScripts == {"af_loop", "af_cond", "af_parallel", "af_fanout", "af_pipeline"}
\* The scripts that read their configuration from the environment.
EnvScripts == {"af_hello", "smoke_test"}
Scripts == FlockScripts \cup AFScripts \cup EnvScripts

\* ------------------------------------------------- Flock: agent declarations

FlockAgents(s) ==
    CASE s = "flock_loop" -> {"refiner"}
      [] s = "flock_cond" -> {"senior_support", "experienced_support", "standard_support"}
      [] s = "flock_fanout" ->
            {"security_reviewer", "performance_reviewer", "style_reviewer", "merge_decision"}
      [] s = "flock_parallel" -> {"market_analyst", "tech_reviewer", "customer_researcher"}
      [] s = "flock_pipeline" -> {"outliner", "writer"}
      [] OTHER -> {}

\* Faulty variant: the merger waits for the security review only.
MergeConsumesSecurityOnly == <<"SecurityReview">>

\* merge_agent .consumes(SecurityReview, PerformanceReview, StyleReview)
MergeConsumes == <<"SecurityReview", "PerformanceReview", "StyleReview">>

\* Faulty variant: the technical reviewer consumes the market analysis instead.
TechReviewerConsumesAnalysis == <<"MarketAnalysis">>

\* tech_reviewer .consumes(ProductInfo)
TechReviewerConsumes == <<"ProductInfo">>

\* Faulty variant: the writer consumes the request, like the outliner.
WriterConsumesRequest == <<"TopicRequest">>

\* writer .consumes(ContentOutline)
WriterConsumes == <<"ContentOutline">>

\* .consumes(T1, ..., Tn): the types an agent waits for, in argument order.
Consumes(agent) ==
    CASE agent = "refiner" -> <<"EssayDraft">>
      [] agent \in {"senior_support", "experienced_support", "standard_support"} ->
            <<"SupportTicket">>
      [] agent \in {"security_reviewer", "performance_reviewer", "style_reviewer"} ->
            <<"CodeSubmission">>
      [] agent = "merge_decision" -> MergeConsumes
      [] agent \in {"market_analyst", "customer_researcher"} -> <<"ProductInfo">>
      [] agent = "tech_reviewer" -> TechReviewerConsumes
      [] agent = "outliner" -> <<"TopicRequest">>
      [] agent = "writer" -> WriterConsumes
      [] OTHER -> <<>>

ConsumedTypes(agent) == {Consumes(agent)[k] : k \in DOMAIN Consumes(agent)}

\* .publishes(T)
Publishes(agent) ==
    CASE agent = "refiner" -> "EssayDraft"
      [] agent \in {"senior_support", "experienced_support", "standard_support"} -> "TicketResponse"
      [] agent = "security_reviewer" -> "SecurityReview"
      [] agent = "performance_reviewer" -> "PerformanceReview"
      [] agent = "style_reviewer" -> "StyleReview"
      [] agent = "merge_decision" -> "MergeDecision"
      [] agent = "market_analyst" -> "MarketAnalysis"
      [] agent = "tech_reviewer" -> "TechnicalReview"
      [] agent = "customer_researcher" -> "CustomerInsight"
      [] agent = "outliner" -> "ContentOutline"
      [] agent = "writer" -> "ContentDraft"
      [] OTHER -> "none"

\* Faulty variant: the iteration limit is tested with <= instead of <.
RefinerWhereOffByOne(d) ==
    d.quality_score < FlockQUALITY_THRESHOLD /\ d.iteration <= FlockMAX_ITERATIONS

\* where=lambda d: d.quality_score < QUALITY_THRESHOLD and d.iteration < MAX_ITERATIONS
RefinerWhere(d) ==
    d.quality_score < FlockQUALITY_THRESHOLD /\ d.iteration < FlockMAX_ITERATIONS

\* where=lambda t: t.priority == "critical" or t.customer_tier == "enterprise"
SeniorWhere(t) == t.priority = "critical" \/ t.customer_tier = "enterprise"

\* Faulty variant: the enterprise exclusion is dropped.
ExperiencedWhereNoExclusion(t) == t.priority = "high"

\* where=lambda t: t.priority == "high" and t.customer_tier != "enterprise"
ExperiencedWhere(t) == t.priority = "high" /\ t.customer_tier # "enterprise"

\* where=lambda t: t.priority in ("normal", "low") and t.customer_tier != "enterprise"
StandardWhere(t) == t.priority \in {"normal", "low"} /\ t.customer_tier # "enterprise"

\* The where= predicate of an agent (TRUE when .consumes() gives none).
Where(agent, a) ==
    CASE agent = "refiner" -> RefinerWhere(a)
      [] agent = "senior_support" -> SeniorWhere(a)
      [] agent = "experienced_support" -> ExperiencedWhere(a)
      [] agent = "standard_support" -> StandardWhere(a)
      [] OTHER -> TRUE

\* ------------------------------------------------------ Flock: the artifacts
\* Every artifact carries the identity the store gives it (id) and the agent
\* that produced it; identities are derived from what caused the artifact.

\* EssayDraft(topic, content, iteration, quality_score, feedback)
EssayDraft(id, by, it, q) ==
    [id |-> id, type |-> "EssayDraft", produced_by |-> by,
     iteration |-> it, quality_score |-> q]

\* SupportTicket(id, subject, description, priority, customer_tier)
SupportTicket(id, p, tier) ==
    [id |-> id, type |-> "SupportTicket", produced_by |-> "main",
     priority |-> p, customer_tier |-> tier]

\* SecurityReview / PerformanceReview / StyleReview / MergeDecision: each has
\* approved: bool
Review(id, ty, by, ok) == [id |-> id, type |-> ty, produced_by |-> by, approved |-> ok]

\* The other artifacts (TicketResponse, CodeSubmission, ProductInfo, the
\* analyses, TopicRequest, ContentOutline, ContentDraft): only type and
\* producer matter.
Artifact(id, ty, by) == [id |-> id, type |-> ty, produced_by |-> by]

\* priority: "Priority: critical, high, normal, low"; the field is a free str,
\* so a value outside the documented ones can be published too.
Priorities == {"critical", "high", "normal", "low"}
PriorityInputs == Priorities \cup {"urgent"}
\* customer_tier: "Customer tier: enterprise, premium, standard"
Tiers == {"enterprise", "premium", "standard"}

\* Identity of the k-th artifact main() publishes.
MainId(k) == "main#" \o ToString(k)

\* Artifacts of type ty in the store: flock.store.get_by_type(ty)
GetByType(brd, ty) == {a \in brd : a.type = ty}

\* initial = EssayDraft(..., iteration=0, quality_score=2, ...)
InitialDraft == EssayDraft(MainId(1), "main", 0, 2)

RECURSIVE JoinIds(_, _)
\* The identities in `held`, one per consumed type, in .consumes() order.
JoinIds(types, held) ==
    IF types = <<>> THEN ""
    ELSE LET e == CHOOSE x \in held : x.type = Head(types)
         IN  e.id \o (IF Len(types) > 1 THEN "," ELSE "") \o JoinIds(Tail(types), held)

\* What an agent's language-model call may publish for the task it was
\* triggered with: any artifact of its .publishes() type.
AgentOutputs(t) ==
    LET id == t.agent \o "(" \o t.key \o ")"
    IN  CASE t.agent = "refiner" ->
                {EssayDraft(id, "refiner", it, q) :
                    it \in 0..MaxIterationValue, q \in QualityValues}
          [] t.agent \in FlockAgents("flock_fanout") ->
                {Review(id, Publishes(t.agent), t.agent, ok) : ok \in BOOLEAN}
          [] OTHER -> {Artifact(id, Publishes(t.agent), t.agent)}

\* ------------------------------------------------------- the environment
\* A value of an environment variable is a sequence of tokens: a word, a
\* blank " ", a double quote "\"", a single quote "'" or a slash "/".  A
\* variable that is not set reads as the empty value (os.getenv(name, "")).

\* DEFAULT_MODEL: not set, an Azure deployment, a quoted one with a slash in
\* the deployment name and a trailing blank, no deployment after the slash,
\* the word azure alone, an OpenAI model name.
ModelValues ==
    { <<>>,
      <<"azure", "/", "gpt">>,
      <<"\"", "azure", "/", "gpt", "/", "v2", "\"", " ">>,
      <<"azure", "/">>,
      <<"azure">>,
      <<"gpt">> }

\* OPENAI_API_KEY: not set, the placeholder of .env.example, a placeholder
\* in quotes after a blank, a placeholder with blanks inside the quotes, a key.
OpenAIKeyValues ==
    { <<>>,
      <<"sk-your-key-here">>,
      <<" ", "'", "your-key-here", "'">>,
      <<"\"", " ", "sk-your-key-here", " ", "\"">>,
      <<"sk-real">> }

\* AZURE_API_KEY: not set, the placeholder in quotes, a key.
AzureKeyValues ==
    { <<>>, <<"\"", "your-azure-key-here", "\"">>, <<"az-real">> }

\* AZURE_API_BASE: not set, the placeholder endpoint, an endpoint.
AzureBaseValues ==
    { <<>>,
      <<"https://your-resource.cognitiveservices.azure.com/">>,
      <<"https://real.openai.azure.com/">> }

\* AZURE_API_VERSION: blank only, a version.
AzureVersionValues == { <<" ">>, <<"2024-10-21">> }

Environments ==
    [DEFAULT_MODEL : ModelValues,
     OPENAI_API_KEY : OpenAIKeyValues,
     AZURE_API_KEY : AzureKeyValues,
     AZURE_API_BASE : AzureBaseValues,
     AZURE_API_VERSION : AzureVersionValues]

\* The environment of a script that reads none of the variables.
NoEnvironment ==
    [DEFAULT_MODEL |-> <<>>, OPENAI_API_KEY |-> <<>>, AZURE_API_KEY |-> <<>>,
     AZURE_API_BASE |-> <<>>, AZURE_API_VERSION |-> <<>>]

\* ---------------------------------------------------- Flock: the orchestrator

\* Agents a newly published artifact is offered to: those consuming its type
\* whose where= predicate accepts it.
Matching(a) ==
    {g \in FlockAgents(script) : a.type \in ConsumedTypes(g) /\ Where(g, a)}

\* flock.publish(a): store the artifact and schedule the matching agents.  An
\* agent consuming one type is scheduled at once; an agent consuming several
\* (an AND gate) holds the artifact until one of each type has arrived.
PublishStep(brd, tsk, pl, a) ==
    LET single == {g \in Matching(a) : Len(Consumes(g)) = 1}
        gates == {g \in Matching(a) : Len(Consumes(g)) > 1}
        held(g) == {e \in pl : e.agent = g}
                      \cup {[agent |-> g, type |-> a.type, id |-> a.id]}
        full == {g \in gates : {e.type : e \in held(g)} = ConsumedTypes(g)}
    IN  [board |-> brd \cup {a},
         tasks |-> tsk \cup {[agent |-> g, inputs |-> {a.id}, key |-> a.id] : g \in single}
                       \cup {[agent |-> g, inputs |-> {e.id : e \in held(g)},
                              key |-> JoinIds(Consumes(g), held(g))] : g \in full},
         pool |-> {e \in pl : e.agent \notin full}
                    \cup UNION {held(g) : g \in gates \ full}]

Init ==
    /\ script \in Scripts
    /\ pc = "start"
    /\ board = {}
    /\ tasks = {}
    /\ pool = {}
    /\ ran = {}
    /\ runNo = 0
    /\ inflight = <<>>
    /\ wfstate = <<>>
    /\ fanin = <<>>
    /\ outputs = <<>>
    /\ trace = <<>>
    /\ printed = <<>>
    /\ env \in (IF script \in EnvScripts THEN Environments ELSE {NoEnvironment})
    /\ client = [kind |-> "none"]
    /\ checks = <<>>
    /\ all_passed = TRUE
    /\ live = <<>>

\* main() publishes artifact a and moves to position `to`.
MainPublish(a, to) ==
    /\ LET r == PublishStep(board, tasks, pool, a)
       IN  /\ board' = r.board
           /\ tasks' = r.tasks
           /\ pool' = r.pool
    /\ pc' = to
    /\ UNCHANGED <<script, envVars, ran, afVars>>

\* feedback_loop.py main(): await flock.publish(initial)
FlockLoopPublish ==
    /\ script = "flock_loop"
    /\ pc = "start"
    /\ MainPublish(InitialDraft, "published")

\* conditional.py main(): for ticket in tickets: await flock.publish(ticket)
FlockCondPublish ==
    /\ script = "flock_cond"
    /\ pc = "start"
    /\ Cardinality(GetByType(board, "SupportTicket")) < MaxTickets
    /\ \E p \in PriorityInputs, tier \in Tiers :
          MainPublish(SupportTicket(
              MainId(Cardinality(GetByType(board, "SupportTicket")) + 1), p, tier), "start")

\* conditional.py main(): the for loop over the tickets ends
FlockCondPublished ==
    /\ script = "flock_cond"
    /\ pc = "start"
    /\ board # {}
    /\ pc' = "published"
    /\ UNCHANGED <<script, envVars, flockVars, afVars>>

\* fan_out_join.py main(): await flock.publish(submission)
FlockFanoutPublish ==
    /\ script = "flock_fanout"
    /\ pc = "start"
    /\ MainPublish(Artifact(MainId(1), "CodeSubmission", "main"), "published")

\* parallel.py main(): await flock.publish(product); EXPERIMENT 3 publishes
\* more than one ProductInfo before run_until_idle().
FlockParallelPublish ==
    /\ script = "flock_parallel"
    /\ pc = "start"
    /\ Cardinality(GetByType(board, "ProductInfo")) < MaxProducts
    /\ MainPublish(Artifact(MainId(Cardinality(GetByType(board, "ProductInfo")) + 1),
                            "ProductInfo", "main"), "start")

\* parallel.py main(): the last publish is done
FlockParallelPublished ==
    /\ script = "flock_parallel"
    /\ pc = "start"
    /\ board # {}
    /\ pc' = "published"
    /\ UNCHANGED <<script, envVars, flockVars, afVars>>

\* pipeline.py main(): await flock.publish(request)
FlockPipelinePublish ==
    /\ script = "flock_pipeline"
    /\ pc = "start"
    /\ MainPublish(Artifact(MainId(1), "TopicRequest", "main"), "published")

RefinerRuns == Cardinality({x \in ran : x.agent = "refiner"})

\* One scheduled agent invocation runs: the agent calls the model on its
\* inputs and publishes the reply.
FlockAgentRun ==
    /\ script \in FlockScripts
    /\ \E t \in tasks :
          /\ t.agent = "refiner" => RefinerRuns < MaxRefinerRuns
          /\ \E out \in AgentOutputs(t) :
                LET r == PublishStep(board, tasks \ {t}, pool, out)
                IN  /\ board' = r.board
                    /\ tasks' = r.tasks
                    /\ pool' = r.pool
                    /\ ran' = ran \cup {[agent |-> t.agent, inputs |-> t.inputs,
                                         output |-> out.id]}
    /\ UNCHANGED <<script, envVars, pc, afVars>>

\* await flock.run_until_idle() returns: nothing is scheduled any more; main()
\* reads the store and prints what it finds, and the closing rule.
FlockRunUntilIdle ==
    /\ script \in FlockScripts
    /\ pc = "published"
    /\ tasks = {}
    /\ pc' = "done"
    /\ printed' = Append(printed, "result")
    /\ UNCHANGED <<script, envVars, flockVars, runNo, inflight, wfstate, fanin, outputs, trace>>

\* ------------------------------------------------ Agent Framework: the texts
\* A text is a sequence of lines (text.split("\n")), a line a sequence of
\* tokens: a word, a number, or one of the separators ":" "/" "=" "," " ".

\* str.upper() on one token
UpperTok(tok) ==
    CASE tok \in {"quality", "Quality"} -> "QUALITY"
      [] tok \in {"route", "Route"} -> "ROUTE"
      [] OTHER -> tok

\* str.lower() on one token
LowerTok(tok) ==
    CASE tok \in {"SENIOR", "Senior"} -> "senior"
      [] tok \in {"EXPERIENCED", "Experienced"} -> "experienced"
      [] tok \in {"STANDARD", "Standard"} -> "standard"
      [] OTHER -> tok

Upper(line) == [k \in DOMAIN line |-> UpperTok(line[k])]
Lower(line) == [k \in DOMAIN line |-> LowerTok(line[k])]

\* `word + sep in line`: the two tokens are adjacent in the line
Contains(line, word, sep) ==
    \E k \in 1..(Len(line) - 1) : line[k] = word /\ line[k + 1] = sep

\* The pure helpers below are written as functions of their arguments, so
\* that an argument is computed once, before the helper is applied to it.

\* str.split(sep): the pieces between the separators (at least one piece)
SplitAt[line \in Seq(STRING), sep \in STRING] ==
    IF \A k \in DOMAIN line : line[k] # sep THEN <<line>>
    ELSE LET k == CHOOSE j \in DOMAIN line :
                      line[j] = sep /\ \A h \in 1..(j - 1) : line[h] # sep
         IN  <<SubSeq(line, 1, k - 1)>> \o SplitAt[SubSeq(line, k + 1, Len(line)), sep]

Split(line, sep) == SplitAt[line, sep]

\* str.strip(): leading and trailing blanks removed
Stripped[line \in Seq(STRING)] ==
    IF line = <<>> THEN line
    ELSE IF Head(line) = " " THEN Stripped[Tail(line)]
    ELSE IF line[Len(line)] = " " THEN Stripped[SubSeq(line, 1, Len(line) - 1)]
    ELSE line

Strip(line) == Stripped[line]

\* Integers a reply or a routing message may spell.
IntRange == -3..12

\* int(s) succeeds: the piece spells a number (otherwise int raises ValueError)
IsInt(piece) == Len(piece) = 1 /\ \E n \in IntRange : ToString(n) = piece[1]

\* int(s): the number the piece spells
ParseInt(piece) == CHOOSE n \in IntRange : ToString(n) = piece[1]

Last(seq) == seq[Len(seq)]

\* ------------------------------------------- Agent Framework: the messages

Str(tokens) == [kind |-> "str", text |-> tokens]
AgentExecutorRequest(prompt) == [kind |-> "AgentExecutorRequest", prompt |-> prompt]
AgentExecutorResponse(id, lines) ==
    [kind |-> "AgentExecutorResponse", executor_id |-> id, lines |-> lines]
ClassifiedTicket(original, route) ==
    [kind |-> "ClassifiedTicket", original_text |-> original, route_to |-> route]
ResponseList(items) == [kind |-> "list", items |-> items]

\* Replies of the essay writer: a score above, below and at the threshold, a
\* score given as n/10, no QUALITY line, an earlier valid line followed by a
\* last one that is no number, a negative score, two scored lines of which
\* the last holds two colons, the empty reply.
WriterTexts ==
    { << <<"draft">>, <<"QUALITY", ":", " ", "8">> >>,
      << <<"draft">>, <<"QUALITY", ":", " ", "3">> >>,
      << <<"draft">>, <<"Quality", ":", " ", "7", "/", "10">> >>,
      << <<"draft">> >>,
      << <<"quality", ":", " ", "9">>, <<"QUALITY", ":", " ", "high">> >>,
      << <<"QUALITY", ":", "-2">>, <<"draft">> >>,
      << <<"QUALITY", ":", " ", "3">>,
         <<"QUALITY", ":", " ", "2", ":", " ", "8", "/", "10">>, <<"done">> >>,
      << <<>> >> }

\* Replies of the ticket classifier: the three routes, another letter case, an
\* unknown route before a valid one, a valid route after other text, a route
\* followed by more text, the empty reply.
ClassifierTexts ==
    { << <<"ROUTE", ":", " ", "senior">> >>,
      << <<"ROUTE", ":", " ", "experienced">> >>,
      << <<"ROUTE", ":", " ", "standard">> >>,
      << <<"route", ":", "SENIOR">> >>,
      << <<"ROUTE", ":", " ", "vip">>, <<"ROUTE", ":", " ", "senior">> >>,
      << <<"ticket">>, <<"ROUTE", ":", " ", "experienced", " ">> >>,
      << <<"ROUTE", ":", " ", "senior", ":", "urgent">> >>,
      << <<>> >> }

\* Replies of the analysts and reviewers: some text, or none.
PlainTexts == { << <<"text">> >>, << <<>> >> }

\* --------------------------------------- Agent Framework: the workflow graphs

QUALITY_THRESHOLD == 7
MAX_ITERATIONS == 3

\* Executors wrapping a language-model agent.
AgentExecutors(s) ==
    CASE s = "af_loop" -> {"writer"}
      [] s = "af_cond" -> {"classifier"}
      [] s = "af_parallel" -> {"market_analyst", "tech_reviewer", "customer_researcher"}
      [] s = "af_fanout" -> {"security_reviewer", "performance_reviewer", "style_reviewer"}
      [] s = "af_pipeline" -> {"outliner", "writer"}
      [] OTHER -> {}

\* WorkflowBuilder(start_executor=...)
StartExecutor(s) ==
    CASE s = "af_loop" -> "seed"
      [] s = "af_cond" -> "intake"
      [] s \in {"af_parallel", "af_fanout"} -> "dispatcher"
      [] s = "af_pipeline" -> "outliner"
      [] OTHER -> "none"

\* .add_edge(seed_draft, writer_agent).add_edge(writer_agent, evaluate_draft)
\* .add_edge(refine_prompt, writer_agent)
LoopEdges ==
    {<<"seed", "writer">>, <<"writer", "evaluate">>, <<"refine_prompt", "writer">>}

\* .add_edge(outliner_agent, writer_agent)
PipelineEdges == {<<"outliner", "writer">>}

\* .add_edge(source, target)
Edges(s) ==
    CASE s = "af_loop" -> LoopEdges
      [] s = "af_cond" -> {<<"intake", "classifier">>, <<"classifier", "parse_classification">>}
      [] s = "af_pipeline" -> PipelineEdges
      [] OTHER -> {}

\* .add_fan_out_edges(dispatcher, [market_agent, tech_agent, customer_agent])
ParallelFanOut == <<"market_analyst", "tech_reviewer", "customer_researcher">>

\* .add_fan_out_edges(dispatcher, [security_agent, performance_agent, style_agent])
ReviewFanOut == <<"security_reviewer", "performance_reviewer", "style_reviewer">>

\* .add_fan_out_edges(source, targets): the targets of a source
FanOut(s, src) ==
    CASE s = "af_parallel" /\ src = "dispatcher" -> ParallelFanOut
      [] s = "af_fanout" /\ src = "dispatcher" -> ReviewFanOut
      [] OTHER -> <<>>

\* Faulty variant: the merger joins two of the three reviewers.
ReviewFanInTwo == {"security_reviewer", "performance_reviewer"}

\* .add_fan_in_edges([security_agent, performance_agent, style_agent], merger)
ReviewFanIn == {"security_reviewer", "performance_reviewer", "style_reviewer"}

\* .add_fan_in_edges([market_agent, tech_agent, customer_agent], aggregator)
ParallelFanIn == {"market_analyst", "tech_reviewer", "customer_researcher"}

\* .add_fan_in_edges(sources, target): the sources joined
FanInSources(s) ==
    CASE s = "af_parallel" -> ParallelFanIn
      [] s = "af_fanout" -> ReviewFanIn
      [] OTHER -> {}

FanInTarget(s) ==
    CASE s = "af_parallel" -> "aggregator"
      [] s = "af_fanout" -> "merger"
      [] OTHER -> "none"

\* dict(pairs).get(key, default): the value of the last pair with that key
DictGet(pairs, key, default) ==
    LET hits == {k \in DOMAIN pairs : pairs[k][1] = <<key>>}
    IN  IF hits = {} THEN default
        ELSE pairs[CHOOSE k \in hits : \A h \in hits : k >= h][2]

\* dict(p.split("=") for p in message.split(",") if "=" in p)
Parts[text \in Seq(STRING)] ==
    LET pieces == SelectSeq(Split(text, ","), LAMBDA p : \E k \in DOMAIN p : p[k] = "=")
    IN  [k \in DOMAIN pieces |-> Split(pieces[k], "=")]

MessageParts(text) == Parts[text]

\* Faulty variant: the iteration limit is tested with <= instead of <.
NeedsRefinementOffByOne(message) ==
    /\ message.kind = "str"
    /\ LET parts == MessageParts(message.text)
           quality == ParseInt(DictGet(parts, "quality", <<"0">>))
           iteration == ParseInt(DictGet(parts, "iteration", <<"0">>))
       IN  quality < QUALITY_THRESHOLD /\ iteration <= MAX_ITERATIONS

\* Faulty variant: the iteration limit is not tested.
NeedsRefinementQualityOnly(message) ==
    /\ message.kind = "str"
    /\ ParseInt(DictGet(MessageParts(message.text), "quality", <<"0">>)) < QUALITY_THRESHOLD

\* needs_refinement(message)
needs_refinement(message) ==
    /\ message.kind = "str"
    /\ LET parts == MessageParts(message.text)
           quality == ParseInt(DictGet(parts, "quality", <<"0">>))
           iteration == ParseInt(DictGet(parts, "iteration", <<"0">>))
       IN  quality < QUALITY_THRESHOLD /\ iteration < MAX_ITERATIONS

\* Faulty variant: the comparison is made against the handler's name.
RouteMatchesHandlerName(expected, message) ==
    message.kind = "ClassifiedTicket" /\ message.route_to = expected \o "_handler"

\* route_matches(expected)(message)
route_matches(expected, message) ==
    message.kind = "ClassifiedTicket" /\ message.route_to = expected

\* add_switch_case_edge_group(source, [Case(condition, target)..., Default(target)]):
\* the cases of a source in order, each <<condition, target>>
SwitchCases(s, src) ==
    CASE s = "af_loop" /\ src = "evaluate" -> << <<"needs_refinement", "refine_prompt">> >>
      [] s = "af_cond" /\ src = "parse_classification" ->
            << <<"senior", "senior_handler">>, <<"experienced", "experienced_handler">> >>
      [] OTHER -> <<>>

SwitchDefault(s, src) ==
    CASE s = "af_loop" /\ src = "evaluate" -> "finalize"
      [] s = "af_cond" /\ src = "parse_classification" -> "standard_handler"
      [] OTHER -> "none"

\* Case(condition=...): the condition applied to a message
Condition(name, message) ==
    IF name = "needs_refinement" THEN needs_refinement(message)
    ELSE route_matches(name, message)

\* Case routes when its predicate is true (the first such case), Default
\* handles the unmatched messages.
SwitchTarget(s, src, message) ==
    LET cases == SwitchCases(s, src)
        hits == {k \in DOMAIN cases : Condition(cases[k][1], message)}
    IN  IF hits = {} THEN SwitchDefault(s, src)
        ELSE cases[CHOOSE k \in hits : \A h \in hits : k <= h][2]

RECURSIVE SeqOf(_)
\* The elements of a finite set, in some fixed order.
SeqOf(S) ==
    IF S = {} THEN <<>>
    ELSE LET e == CHOOSE x \in S : TRUE IN <<e>> \o SeqOf(S \ {e})

Delivery(to, message) == [to |-> to, msg |-> message]

\* ctx.send_message(message) by executor src: the deliveries along its plain
\* edges, its switch-case group and its fan-out group.
Routed(s, src, message) ==
    LET plain == SeqOf({e[2] : e \in {x \in Edges(s) : x[1] = src}})
        fan == FanOut(s, src)
    IN  [k \in DOMAIN plain |-> Delivery(plain[k], message)]
        \o (IF SwitchDefault(s, src) = "none" THEN <<>>
            ELSE <<Delivery(SwitchTarget(s, src, message), message)>>)
        \o [k \in DOMAIN fan |-> Delivery(fan[k], message)]

\* The fan-in buffer once src has sent message: the join waits for all of its
\* sources, then hands the list of their messages to its target.
Joined(s, src, message, buffer) ==
    IF src \notin FanInSources(s) THEN [fanin |-> buffer, out |-> <<>>]
    ELSE LET got == Append(buffer, message)
         IN  IF {got[k].executor_id : k \in DOMAIN got} = FanInSources(s)
             THEN [fanin |-> <<>>, out |-> <<Delivery(FanInTarget(s), ResponseList(got))>>]
             ELSE [fanin |-> got, out |-> <<>>]

\* The sequence without its k-th element.
Without(seq, k) == SubSeq(seq, 1, k - 1) \o SubSeq(seq, k + 1, Len(seq))

\* An agent executor with no outgoing edge is a terminal node: its response
\* is an output of the workflow.
IsTerminal(s, e) ==
    /\ \A x \in Edges(s) : x[1] # e
    /\ e \notin FanInSources(s)
    /\ FanOut(s, e) = <<>>
    /\ SwitchDefault(s, e) = "none"

\* ctx.set_state(key, value)
SetState(st, key, value) == (key :> value) @@ st

\* ctx.get_state(key) or default, for a number
GetIntOr(st, key, default) ==
    IF key \in DOMAIN st /\ st[key] # 0 THEN st[key] ELSE default

\* Number of times executor e has run in the current workflow run.
Calls(e) == Cardinality({k \in DOMAIN trace : trace[k] = e})

\* What the workflow does when the executor handling inflight[k] sends
\* `sent` (a sequence of messages, empty when it sends none).
AfterHandling(k, e, sent) ==
    \E m \in {sent} :
    \E j \in {IF m = <<>> THEN [fanin |-> fanin, out |-> <<>>]
               ELSE Joined(script, e, m[1], fanin)} :
    \E routed \in {IF m = <<>> THEN <<>> ELSE Routed(script, e, m[1])} :
        /\ inflight' = Without(inflight, k) \o routed \o j.out
        /\ fanin' = j.fanin
        /\ trace' = Append(trace, e)

\* conditional.py main(): tickets, each named by its first line
tickets == <<"T-001", "T-002", "T-003">>

\* The input main() passes to workflow.run(); conditional.py passes the
\* tickets one by one (RunInputOf).
RunInput(s) ==
    CASE s = "af_loop" -> Str(<<"topic">>)
      [] s = "af_cond" -> Str(<<"ticket">>)
      [] s = "af_parallel" -> Str(<<"product">>)
      [] s = "af_fanout" -> Str(<<"code">>)
      [] OTHER -> Str(<<"content">>)

\* main(): events = await workflow.run(...) starts a run at the start executor
AFRun ==
    /\ script \in AFScripts
    /\ pc = "start"
    /\ pc' = "running"
    /\ runNo' = runNo + 1
    /\ inflight' = <<Delivery(StartExecutor(script),
                              IF script = "af_cond" THEN Str(<<tickets[runNo + 1]>>)
                              ELSE RunInput(script))>>
    /\ wfstate' = <<>>
    /\ fanin' = <<>>
    /\ outputs' = <<>>
    /\ trace' = <<>>
    /\ printed' = IF script = "af_cond"
                  THEN Append(printed, "Processing: " \o tickets[runNo + 1])
                  ELSE printed
    /\ UNCHANGED <<script, envVars, flockVars>>

\* The replies the agent behind an executor may give.
AgentTexts(s, e) ==
    CASE s = "af_loop" -> WriterTexts
      [] s = "af_cond" -> ClassifierTexts
      [] OTHER -> PlainTexts

\* AgentExecutor: the agent answers the message it received; the response
\* follows the executor's edges, or is an output when it has none.
AFAgentRespond ==
    /\ script \in AFScripts
    /\ \E k \in DOMAIN inflight :
          LET e == inflight[k].to IN
          /\ e \in AgentExecutors(script)
          /\ Calls(e) < MaxAgentCalls
          /\ \E text \in AgentTexts(script, e) :
                LET resp == AgentExecutorResponse(e, text)
                IN  /\ AfterHandling(k, e, <<resp>>)
                    /\ outputs' = IF IsTerminal(script, e)
                                  THEN Append(outputs, resp) ELSE outputs
    /\ UNCHANGED <<script, envVars, pc, flockVars, runNo, wfstate, printed>>

\* loop.py seed_draft(topic, ctx)
AFLoopSeed ==
    /\ script = "af_loop"
    /\ \E k \in DOMAIN inflight :
          /\ inflight[k].to = "seed"
          /\ wfstate' = SetState(SetState(wfstate, "iteration", 0),
                                 "topic", inflight[k].msg.text)
          /\ AfterHandling(k, "seed", <<AgentExecutorRequest("first draft")>>)
    /\ UNCHANGED <<script, envVars, pc, flockVars, runNo, outputs, printed>>

\* Faulty variant: the first line that mentions QUALITY: decides, not the last.
ParseQualityFirstLine(lines) ==
    LET hits == {k \in DOMAIN lines : Contains(Upper(lines[k]), "QUALITY", ":")}
    IN  IF hits = {} THEN 5
        ELSE LET line == lines[CHOOSE k \in hits : \A h \in hits : k <= h]
                 score_str == Strip(Last(Split(line, ":")))
                 piece == Strip(Split(score_str, "/")[1])
             IN  IF IsInt(piece) THEN ParseInt(piece) ELSE 5

\* Faulty variant: the message carries the iteration before the increment.
RoutingMessageStale(quality, iteration) ==
    Str(<<"quality", "=", ToString(quality), ",",
          "iteration", "=", ToString(iteration - 1)>>)

\* evaluate_draft: the score on the last line that mentions QUALITY:, 5 when
\* there is none or it is no number
ParseQuality(lines) ==
    LET hits == {k \in DOMAIN lines : Contains(Upper(lines[k]), "QUALITY", ":")}
    IN  IF hits = {} THEN 5
        ELSE LET line == lines[CHOOSE k \in hits : \A h \in hits : k >= h]
                 score_str == Strip(Last(Split(line, ":")))
                 piece == Strip(Split(score_str, "/")[1])
             IN  IF IsInt(piece) THEN ParseInt(piece) ELSE 5

\* f"quality={quality},iteration={iteration + 1}"
RoutingMessage(quality, iteration) ==
    Str(<<"quality", "=", ToString(quality), ",", "iteration", "=", ToString(iteration)>>)

\* loop.py evaluate_draft(response, ctx)
AFLoopEvaluate ==
    /\ script = "af_loop"
    /\ \E k \in DOMAIN inflight :
          /\ inflight[k].to = "evaluate"
          /\ \E text \in {inflight[k].msg.lines} :
             \E iteration \in {GetIntOr(wfstate, "iteration", 0)} :
             \E quality \in {ParseQuality(text)} :
                 /\ wfstate' = SetState(SetState(SetState(wfstate,
                                    "iteration", iteration + 1),
                                    "quality", quality),
                                    "last_draft", text)
                 /\ AfterHandling(k, "evaluate",
                                  <<RoutingMessage(quality, iteration + 1)>>)
    /\ UNCHANGED <<script, envVars, pc, flockVars, runNo, outputs, printed>>

\* loop.py refine_prompt(eval_result, ctx)
AFLoopRefinePrompt ==
    /\ script = "af_loop"
    /\ \E k \in DOMAIN inflight :
          /\ inflight[k].to = "refine_prompt"
          /\ AfterHandling(k, "refine_prompt", <<AgentExecutorRequest("improve")>>)
    /\ UNCHANGED <<script, envVars, pc, flockVars, runNo, wfstate, outputs, printed>>

\* loop.py finalize(eval_result, ctx)
AFLoopFinalize ==
    /\ script = "af_loop"
    /\ \E k \in DOMAIN inflight :
          /\ inflight[k].to = "finalize"
          /\ LET quality == GetIntOr(wfstate, "quality", 0)
                 iteration == GetIntOr(wfstate, "iteration", 0)
                 reason == IF quality >= QUALITY_THRESHOLD
                           THEN "quality target reached" ELSE "max iterations reached"
             IN  outputs' = Append(outputs,
                     [kind |-> "final", by |-> "finalize", iteration |-> iteration,
                      quality |-> quality, reason |-> reason])
          /\ AfterHandling(k, "finalize", <<>>)
    /\ UNCHANGED <<script, envVars, pc, flockVars, runNo, wfstate, printed>>

\* conditional.py intake(ticket_text, ctx)
AFCondIntake ==
    /\ script = "af_cond"
    /\ \E k \in DOMAIN inflight :
          /\ inflight[k].to = "intake"
          /\ AfterHandling(k, "intake", <<AgentExecutorRequest("classify")>>)
    /\ UNCHANGED <<script, envVars, pc, flockVars, runNo, wfstate, outputs, printed>>

\* Faulty variant: the last line that mentions ROUTE: decides, not the first.
ParseRouteLastLine(lines) ==
    LET hits == {k \in DOMAIN lines : Contains(Upper(lines[k]), "ROUTE", ":")}
    IN  IF hits = {} THEN "standard"
        ELSE LET line == lines[CHOOSE k \in hits : \A h \in hits : k >= h]
                 route_value == Lower(Strip(Last(Split(line, ":"))))
             IN  IF Len(route_value) = 1
                     /\ route_value[1] \in {"senior", "experienced", "standard"}
                 THEN route_value[1] ELSE "standard"

\* parse_classification: the route named on the first line that mentions
\* ROUTE:, "standard" when there is none or it is not one of the three
ParseRoute(lines) ==
    LET hits == {k \in DOMAIN lines : Contains(Upper(lines[k]), "ROUTE", ":")}
    IN  IF hits = {} THEN "standard"
        ELSE LET line == lines[CHOOSE k \in hits : \A h \in hits : k <= h]
                 route_value == Lower(Strip(Last(Split(line, ":"))))
             IN  IF Len(route_value) = 1
                     /\ route_value[1] \in {"senior", "experienced", "standard"}
                 THEN route_value[1] ELSE "standard"

\* conditional.py parse_classification(response, ctx)
AFCondParse ==
    /\ script = "af_cond"
    /\ \E k \in DOMAIN inflight :
          /\ inflight[k].to = "parse_classification"
          /\ \E route \in {ParseRoute(inflight[k].msg.lines)} :
                AfterHandling(k, "parse_classification",
                              <<ClassifiedTicket(inflight[k].msg.lines, route)>>)
    /\ UNCHANGED <<script, envVars, pc, flockVars, runNo, wfstate, outputs, printed>>

\* conditional.py senior_handler / experienced_handler / standard_handler
AFCondHandler ==
    /\ script = "af_cond"
    /\ \E k \in DOMAIN inflight :
          LET h == inflight[k].to IN
          /\ h \in {"senior_handler", "experienced_handler", "standard_handler"}
          /\ outputs' = Append(outputs,
                 [kind |-> "handled", by |-> h, route_to |-> inflight[k].msg.route_to])
          /\ AfterHandling(k, h, <<>>)
    /\ UNCHANGED <<script, envVars, pc, flockVars, runNo, wfstate, printed>>

\* DispatchToAnalysts.dispatch / DispatchCode.dispatch
AFDispatch ==
    /\ script \in {"af_parallel", "af_fanout"}
    /\ \E k \in DOMAIN inflight :
          /\ inflight[k].to = "dispatcher"
          /\ AfterHandling(k, "dispatcher", <<AgentExecutorRequest(inflight[k].msg.text)>>)
    /\ UNCHANGED <<script, envVars, pc, flockVars, runNo, wfstate, outputs, printed>>

\* r.agent_response.text or "(no response)"
TextOr(lines, default) == IF lines = << <<>> >> THEN << <<default>> >> ELSE lines

\* by_agent.get(name, 'N/A') after by_agent[r.executor_id] = ... for r in results
ByAgent(results, name) ==
    LET hits == {k \in DOMAIN results : results[k].executor_id = name}
    IN  IF hits = {} THEN << <<"N/A">> >>
        ELSE TextOr(results[CHOOSE k \in hits : \A h \in hits : k >= h].lines,
                    "(no response)")

\* parallel.py AggregateAnalyses.aggregate(results, ctx)
AFAggregate ==
    /\ script = "af_parallel"
    /\ \E k \in DOMAIN inflight :
          /\ inflight[k].to = "aggregator"
          /\ LET results == inflight[k].msg.items
             IN  outputs' = Append(outputs,
                     [kind |-> "report", by |-> "aggregator",
                      market |-> ByAgent(results, "market_analyst"),
                      technical |-> ByAgent(results, "tech_reviewer"),
                      customer |-> ByAgent(results, "customer_researcher")])
          /\ AfterHandling(k, "aggregator", <<>>)
    /\ UNCHANGED <<script, envVars, pc, flockVars, runNo, wfstate, printed>>

\* fan_out_join.py MergeReviews.merge(reviews, ctx)
AFMerge ==
    /\ script = "af_fanout"
    /\ \E k \in DOMAIN inflight :
          /\ inflight[k].to = "merger"
          /\ LET reviews == inflight[k].msg.items
             IN  outputs' = Append(outputs,
                     [kind |-> "summary", by |-> "merger",
                      parts |-> [i \in DOMAIN reviews |->
                                    <<reviews[i].executor_id,
                                      TextOr(reviews[i].lines, "(no response)")>>]])
          /\ AfterHandling(k, "merger", <<>>)
    /\ UNCHANGED <<script, envVars, pc, flockVars, runNo, wfstate, printed>>

\* Faulty variant: main() goes on without awaiting the end of the run.
AFRunReturnsEarly ==
    /\ script \in AFScripts
    /\ pc = "running"
    /\ pc' = "returned"
    /\ printed' = Append(printed,
                         IF outputs # <<>> THEN "result"
                         ELSE IF script = "af_cond" THEN "" ELSE "No output")
    /\ UNCHANGED <<script, envVars, flockVars, runNo, inflight, wfstate, fanin, outputs, trace>>

\* workflow.run() returns once no message is left; main() prints the first
\* output ("No output..." when there is none; conditional.py prints nothing).
AFRunReturns ==
    /\ script \in AFScripts
    /\ pc = "running"
    /\ inflight = <<>>
    /\ pc' = "returned"
    /\ printed' = Append(printed,
                         IF outputs # <<>> THEN "result"
                         ELSE IF script = "af_cond" THEN "" ELSE "No output")
    /\ UNCHANGED <<script, envVars, flockVars, runNo, inflight, wfstate, fanin, outputs, trace>>

\* conditional.py main(): for ticket in tickets: the next ticket, or the end;
\* the other scripts run the workflow once.
AFMainNext ==
    /\ script \in AFScripts
    /\ pc = "returned"
    /\ pc' = IF script = "af_cond" /\ runNo < NumTickets THEN "start" ELSE "done"
    /\ UNCHANGED <<script, envVars, flockVars, afVars>>

\* ------------------------------------------------- reading the environment

\* str.strip(chars) for one character: it is removed from both ends
StrippedOf[line \in Seq(STRING), ch \in STRING] ==
    IF line = <<>> THEN line
    ELSE IF Head(line) = ch THEN StrippedOf[Tail(line), ch]
    ELSE IF line[Len(line)] = ch THEN StrippedOf[SubSeq(line, 1, Len(line) - 1), ch]
    ELSE line

StripChar(line, ch) == StrippedOf[line, ch]

\* hello_agent.py _clean_env(name): os.getenv(name, "").strip().strip('"').strip("'")
_clean_env(name) == StripChar(StripChar(Strip(env[name]), "\""), "'")

\* default_model.startswith("azure/")
StartsWithAzure(value) == Len(value) >= 2 /\ value[1] = "azure" /\ value[2] = "/"

\* value.split(sep, 1)[1]: what follows the first separator
AfterFirst(value, sep) ==
    LET k == CHOOSE j \in DOMAIN value :
                 value[j] = sep /\ \A h \in 1..(j - 1) : value[h] # sep
    IN  SubSeq(value, k + 1, Len(value))

AzureOpenAIResponsesClient(key, endpoint, version, deployment) ==
    [kind |-> "azure", api_key |-> key, endpoint |-> endpoint,
     api_version |-> version, deployment_name |-> deployment]

OpenAIResponsesClient ==
    [kind |-> "openai", api_key |-> <<>>, endpoint |-> <<>>,
     api_version |-> <<>>, deployment_name |-> <<>>]

\* Faulty variant: the endpoint is not required for the Azure client.
CreateClientKeyOnly ==
    IF _clean_env("AZURE_API_KEY") # <<>> /\ StartsWithAzure(_clean_env("DEFAULT_MODEL"))
    THEN AzureOpenAIResponsesClient(
             _clean_env("AZURE_API_KEY"), _clean_env("AZURE_API_BASE"),
             _clean_env("AZURE_API_VERSION"),
             AfterFirst(_clean_env("DEFAULT_MODEL"), "/"))
    ELSE OpenAIResponsesClient

\* hello_agent.py create_client(); an api_version of <<>> stands for None
create_client ==
    LET azure_api_key == _clean_env("AZURE_API_KEY")
        azure_api_base == _clean_env("AZURE_API_BASE")
        azure_api_version == _clean_env("AZURE_API_VERSION")
        default_model == _clean_env("DEFAULT_MODEL")
    IN  IF azure_api_key # <<>> /\ azure_api_base # <<>> /\ StartsWithAzure(default_model)
        THEN AzureOpenAIResponsesClient(azure_api_key, azure_api_base,
                                        azure_api_version, AfterFirst(default_model, "/"))
        ELSE OpenAIResponsesClient

\* The Agent Framework example scripts; tools.py is named for its client only.
AFExampleScripts == AFScripts \cup {"af_hello", "af_tools"}

\* The client a script constructs when it is loaded: hello_agent.py,
\* conditional.py, tools.py and loop.py call their create_client(), all four
\* alike; pipeline.py, parallel.py and fan_out_join.py construct
\* OpenAIResponsesClient() whatever the environment says.
ModuleClient(s) ==
    IF s \in {"af_pipeline", "af_parallel", "af_fanout"}
    THEN OpenAIResponsesClient
    ELSE create_client

\* hello_agent.py, when the module is loaded: client = create_client()
HelloCreateClient ==
    /\ script = "af_hello"
    /\ pc = "start"
    /\ client' = create_client
    /\ pc' = "created"
    /\ UNCHANGED <<script, flockVars, afVars, env, checks, all_passed, live>>

\* hello_agent.py main(): poet_agent.run returns, once at once and once as a
\* stream, and main() prints the replies between its rules.
HelloRun ==
    /\ script = "af_hello"
    /\ pc = "created"
    /\ pc' = "done"
    /\ printed' = Append(printed, "result")
    /\ UNCHANGED <<script, envVars, flockVars, runNo, inflight, wfstate, fanin, outputs, trace>>

\* --------------------------------------------------------- smoke_test.py

\* str(e)[:120]
DetailLimit == 120
\* text[:40]
ReplyLimit == 40

\* smoke_test.py clean_env(name)
clean_env(name) == StripChar(StripChar(Strip(env[name]), "\""), "'")

\* has_real_value: placeholders
placeholders ==
    { <<>>,
      <<"sk-your-key-here">>,
      <<"your-azure-key-here">>,
      <<"your-key-here">>,
      <<"https://your-resource.cognitiveservices.azure.com/">> }

\* Faulty variant: only the empty value counts as not set.
HasRealValueNonEmpty(name) == clean_env(name) # <<>>

\* smoke_test.py has_real_value(name)
has_real_value(name) == clean_env(name) \notin placeholders

\* Faulty variant: the detail is not truncated.
Untruncated(text, n) == text

\* text[:n]
Truncate(text, n) == SubSeq(text, 1, IF Len(text) < n THEN Len(text) ELSE n)

\* smoke_test.py check(label, passed, detail): the line printed; the call
\* returns `passed`
check(label, passed, detail) ==
    [label |-> label, passed |-> passed,
     status |-> IF passed THEN "PASS" ELSE "FAIL", detail |-> detail]

\* Faulty variant: the result of the check replaces all_passed.
Assign(all, passed) == passed

\* all_passed &= check(...)
AndAssign(all, passed) == all /\ passed

\* all_passed after the check() calls cs, made in order
AfterChecks(all, cs) ==
    LET f[k \in 0..Len(cs)] ==
            IF k = 0 THEN all ELSE AndAssign(f[k - 1], cs[k].passed)
    IN  f[Len(cs)]

\* Faulty variant: a DEFAULT_MODEL that is not set reads as a built-in model.
DefaultModelWithFallback ==
    IF clean_env("DEFAULT_MODEL") = <<>> THEN <<"gpt">> ELSE clean_env("DEFAULT_MODEL")

\* main(): the values read from the environment (lines 81-86)
default_model == clean_env("DEFAULT_MODEL")
using_azure_model == StartsWithAzure(default_model)
has_openai_key == has_real_value("OPENAI_API_KEY")
has_azure_key == has_real_value("AZURE_API_KEY")
has_azure_base == has_real_value("AZURE_API_BASE")
has_azure_version == clean_env("AZURE_API_VERSION") # <<>>

\* af_uses_azure = has_azure_key and has_azure_base and using_azure_model
af_uses_azure == has_azure_key /\ has_azure_base /\ using_azure_model

\* Faulty variant: Flock counts as ready whenever an OpenAI key is there.
FlockReadyAnyKey == has_openai_key \/ (has_azure_key /\ has_azure_base)

flock_ready ==
    \/ (using_azure_model /\ has_azure_key /\ has_azure_base)
    \/ (~using_azure_model /\ has_openai_key)

af_ready ==
    \/ (af_uses_azure /\ has_azure_key /\ has_azure_base)
    \/ (~af_uses_azure /\ has_openai_key)

\* main() section 4: the check() calls on the environment, in order
EnvChecks ==
    <<IF using_azure_model
      THEN check("Flock Azure creds", has_azure_key /\ has_azure_base,
                 <<"AZURE_API_KEY + AZURE_API_BASE required">>)
      ELSE check("Flock OpenAI key", has_openai_key, <<"OPENAI_API_KEY required">>)>>
    \o <<check("Agent Framework provider", TRUE,
               <<IF af_uses_azure THEN "azure" ELSE "openai">>)>>
    \o (IF has_azure_key /\ has_azure_base /\ ~using_azure_model /\ ~has_openai_key
        THEN <<check("Provider configuration", FALSE, <<"Azure creds detected">>)>>
        ELSE <<>>)
    \o (IF af_uses_azure
        THEN <<check("AZURE_API_KEY set", has_azure_key,
                     <<IF has_azure_key THEN "found" ELSE "missing or placeholder">>),
               check("AZURE_API_BASE set", has_azure_base,
                     <<IF has_azure_base THEN "found" ELSE "missing or placeholder">>),
               check("AZURE_API_VERSION set (optional)", TRUE,
                     IF has_azure_version THEN clean_env("AZURE_API_VERSION")
                     ELSE <<"not set">>),
               check("DEFAULT_MODEL deployment",
                     using_azure_model
                        /\ (IF \E k \in DOMAIN default_model : default_model[k] = "/"
                            THEN AfterFirst(default_model, "/") ELSE <<>>) # <<>>,
                     IF default_model # <<>> THEN default_model ELSE <<"missing">>)>>
        ELSE <<check("OPENAI_API_KEY set", has_openai_key,
                     <<IF has_openai_key THEN "found" ELSE "missing or placeholder">>),
               check("OPENAI_RESPONSES_MODEL_ID set (optional)", TRUE, <<"not set">>)>>)
    \o <<check("DEFAULT_MODEL set", default_model # <<>>,
               IF default_model # <<>> THEN default_model ELSE <<"missing">>)>>

\* One more check() call is made and AND-ed into all_passed.
Checked(c) ==
    /\ checks' = Append(checks, c)
    /\ all_passed' = AndAssign(all_passed, c.passed)

\* main() section 1: the Python version is 3.12 or later, or it is not
SmokePythonVersion ==
    /\ script = "smoke_test"
    /\ pc = "start"
    /\ \E ok \in BOOLEAN : Checked(check("Python version", ok, <<"3.x">>))
    /\ pc' = "flock_import"
    /\ UNCHANGED <<script, flockVars, afVars, env, client, live>>

\* main() section 2: from flock import ... succeeds or raises ImportError
SmokeFlockImport ==
    /\ script = "smoke_test"
    /\ pc = "flock_import"
    /\ \E ok \in BOOLEAN :
          Checked(check("Flock import", ok, IF ok THEN <<>> ELSE <<"No module">>))
    /\ pc' = "af_import"
    /\ UNCHANGED <<script, flockVars, afVars, env, client, live>>

\* main() section 3: from agent_framework import ... succeeds or raises
SmokeAFImport ==
    /\ script = "smoke_test"
    /\ pc = "af_import"
    /\ \E ok \in BOOLEAN :
          Checked(check("Agent Framework import", ok, IF ok THEN <<>> ELSE <<"No module">>))
    /\ pc' = "env"
    /\ UNCHANGED <<script, flockVars, afVars, env, client, live>>

\* main() section 4: environment variables
SmokeEnvChecks ==
    /\ script = "smoke_test"
    /\ pc = "env"
    /\ checks' = checks \o EnvChecks
    /\ all_passed' = AfterChecks(all_passed, EnvChecks)
    /\ pc' = "live"
    /\ UNCHANGED <<script, flockVars, afVars, env, client, live>>

\* A text of n distinct tokens.
TextOfLen(n) == [k \in 1..n |-> ToString(k)]

\* What a live call may end with: a reply (for Flock a Pong, whose reply may
\* be the empty string), no reply, or an exception whose message is empty,
\* exactly as long as the limit, or longer.
LiveErrors ==
    {[kind |-> "error", text |-> TextOfLen(n)] : n \in {0, DetailLimit, MaxMessageLen}}
FlockLiveOutcomes ==
    {[kind |-> "reply", text |-> <<"pong">>], [kind |-> "reply", text |-> <<>>],
     [kind |-> "none", text |-> <<>>]}
        \cup LiveErrors
AFLiveOutcomes ==
    {[kind |-> "reply", text |-> <<" ", "pong", " ">>],
     [kind |-> "reply", text |-> <<" ">>],
     [kind |-> "reply", text |-> TextOfLen(ReplyLimit + 1)]}
        \cup LiveErrors

\* A live call attempted through a framework, the provider it uses and how
\* it ended.
LiveCall(framework, azure, outcome) ==
    [framework |-> framework, provider |-> IF azure THEN "azure" ELSE "openai",
     outcome |-> outcome]

\* main() lines 189-192: the check made after the Flock quick call
FlockLiveCheck(outcome) ==
    CASE outcome.kind = "reply" -> check("Flock LLM call", TRUE, outcome.text)
      [] outcome.kind = "none" -> check("Flock LLM call", FALSE, <<"no response">>)
      [] OTHER -> check("Flock LLM call", FALSE, Truncate(outcome.text, DetailLimit))

\* Faulty variant: any reply passes, also one that is blank.
AFLiveCheckAnyReply(outcome) ==
    IF outcome.kind = "error"
    THEN check("Agent Framework LLM call", FALSE, Truncate(outcome.text, DetailLimit))
    ELSE check("Agent Framework LLM call", TRUE, Truncate(Strip(outcome.text), ReplyLimit))

\* main() lines 214-219: the check made after the Agent Framework quick call
AFLiveCheck(outcome) ==
    IF outcome.kind = "error"
    THEN check("Agent Framework LLM call", FALSE, Truncate(outcome.text, DetailLimit))
    ELSE LET text == Strip(outcome.text)
         IN  check("Agent Framework LLM call", text # <<>>, Truncate(text, ReplyLimit))

\* main() lines 222-224: neither framework is ready, the live section is skipped
SmokeSkipLive ==
    /\ script = "smoke_test"
    /\ pc = "live"
    /\ ~(flock_ready \/ af_ready)
    /\ printed' = Append(printed, "Skipping live API checks")
    /\ pc' = "summary"
    /\ UNCHANGED <<script, flockVars, runNo, inflight, wfstate, fanin, outputs, trace,
                   env, client, checks, all_passed, live>>

\* main() lines 167-194: the Flock quick call, or its FAIL line when Flock is
\* not ready.  When the import of section 2 failed, the import inside the try
\* block fails again.
SmokeFlockLive ==
    /\ script = "smoke_test"
    /\ pc = "live"
    /\ flock_ready \/ af_ready
    /\ IF flock_ready
       THEN \E outcome \in FlockLiveOutcomes :
                  /\ ~checks[2].passed => outcome.kind = "error"
                  /\ live' = Append(live, LiveCall("flock", using_azure_model, outcome))
                  /\ Checked(FlockLiveCheck(outcome))
       ELSE /\ live' = live
            /\ Checked(check("Flock LLM call", FALSE, <<"credentials not configured">>))
    /\ pc' = "af_live"
    /\ UNCHANGED <<script, flockVars, afVars, env, client>>

\* main() lines 196-221: the Agent Framework quick call, or its FAIL line
SmokeAFLive ==
    /\ script = "smoke_test"
    /\ pc = "af_live"
    /\ IF af_ready
       THEN \E outcome \in AFLiveOutcomes :
                  /\ live' = Append(live, LiveCall("agent_framework", af_uses_azure, outcome))
                  /\ Checked(AFLiveCheck(outcome))
       ELSE /\ live' = live
            /\ Checked(check("Agent Framework LLM call", FALSE,
                             <<"credentials not configured">>))
    /\ pc' = "summary"
    /\ UNCHANGED <<script, flockVars, afVars, env, client>>

\* main() lines 226-234: the summary
SmokeSummary ==
    /\ script = "smoke_test"
    /\ pc = "summary"
    /\ printed' = Append(printed, IF all_passed THEN "All checks passed"
                                  ELSE "Some checks failed")
    /\ pc' = "done"
    /\ UNCHANGED <<script, flockVars, runNo, inflight, wfstate, fanin, outputs, trace,
                   env, client, checks, all_passed, live>>

SmokeNext ==
    \/ SmokePythonVersion
    \/ SmokeFlockImport
    \/ SmokeAFImport
    \/ SmokeEnvChecks
    \/ SmokeSkipLive
    \/ SmokeFlockLive
    \/ SmokeAFLive
    \/ SmokeSummary

FlockNext ==
    \/ FlockLoopPublish
    \/ FlockCondPublish
    \/ FlockCondPublished
    \/ FlockFanoutPublish
    \/ FlockParallelPublish
    \/ FlockParallelPublished
    \/ FlockPipelinePublish
    \/ FlockAgentRun
    \/ FlockRunUntilIdle

AFNext ==
    \/ AFRun
    \/ AFAgentRespond
    \/ AFLoopSeed
    \/ AFLoopEvaluate
    \/ AFLoopRefinePrompt
    \/ AFLoopFinalize
    \/ AFCondIntake
    \/ AFCondParse
    \/ AFCondHandler
    \/ AFDispatch
    \/ AFAggregate
    \/ AFMerge
    \/ AFRunReturns
    \/ AFMainNext

HelloNext ==
    \/ HelloCreateClient
    \/ HelloRun

Next == FlockNext \/ AFNext \/ HelloNext \/ SmokeNext

Spec == Init /\ [][Next]_vars

\* workflow.run() keeps handling messages until none is left, and every agent
\* call returns: a step of the workflow that can be taken is taken.
FairSpec == Spec /\ WF_vars(AFNext)

\* Every framework call returns and every main() is a sequential program: a
\* step of the script that can be taken is taken.
FairMainSpec == Spec /\ WF_vars(Next)

\* ------------------------------------------------------------------ claims

\* Agents that the artifact with identity id has triggered (scheduled or
\* already run).
TriggeredBy(id) ==
    {t.agent : t \in {x \in tasks : id \in x.inputs}}
        \cup {r.agent : r \in {x \in ran : id \in x.inputs}}

\* C1: in the Agent Framework loop, whatever the writer replies, the workflow
\* reaches finalize and yields exactly one output, and the writer is invoked
\* at most MAX_ITERATIONS (3) times per run.
C1_LoopTerminates ==
    /\ [](script = "af_loop" =>
            /\ Calls("writer") <= 3
            /\ Len(outputs) <= 1
            /\ (pc \in {"returned", "done"} =>
                    Len(outputs) = 1 /\ outputs[1].by = "finalize"))
    /\ (script = "af_loop" ~>
            (Calls("finalize") = 1 /\ Len(outputs) = 1 /\ pc = "done"))

\* The run ended after the writer was called three times without reaching
\* the quality threshold.
C1_Witness ==
    /\ script = "af_loop"
    /\ pc = "done"
    /\ Calls("writer") = 3
    /\ Len(outputs) = 1
    /\ outputs[1].quality < 7

\* C2: after every evaluate_draft step the routing message goes to
\* refine_prompt iff quality < 7 and iteration < 3, and to finalize otherwise;
\* never to both and never to neither.
C2_RoutedToExactlyOne ==
    (script = "af_loop" /\ trace # <<>> /\ Last(trace) = "evaluate") =>
        /\ Len(inflight) = 1
        /\ inflight[1].to \in {"refine_prompt", "finalize"}
        /\ (inflight[1].to = "refine_prompt")
              <=> (wfstate["quality"] < 7 /\ wfstate["iteration"] < 3)

\* The third evaluation found the draft still below the threshold and the
\* message went to finalize.
C2_Witness ==
    /\ script = "af_loop"
    /\ trace # <<>> /\ Last(trace) = "evaluate"
    /\ wfstate["quality"] < 7
    /\ wfstate["iteration"] = 3
    /\ inflight[1].to = "finalize"

\* C3: in the Flock feedback loop an EssayDraft triggers the refiner iff its
\* quality_score is below 7 and its iteration is below 3; a draft with
\* quality_score >= 7 or iteration >= 3 triggers no further refinement.
C3_RefinerTriggeredIff ==
    script = "flock_loop" =>
        \A d \in board :
            ("refiner" \in TriggeredBy(d.id))
                <=> (d.quality_score < 7 /\ d.iteration < 3)

\* A refined draft below both limits triggered the refiner again, and the
\* draft refined from it, at the threshold, is on the blackboard.
C3_Witness ==
    /\ script = "flock_loop"
    /\ \E d \in board, r \in ran, e \in board :
          /\ d.produced_by = "refiner"
          /\ r.inputs = {d.id}
          /\ e.id = r.output
          /\ e.quality_score >= 7
          /\ e.iteration < 3

\* C4: starting from the seeded draft (iteration 0, quality 2) the refiner
\* runs at most MAX_ITERATIONS (3) times.
C4_RefinerRunsAtMostMax ==
    script = "flock_loop" => RefinerRuns <= FlockMAX_ITERATIONS

\* C5: every SupportTicket with a documented priority and tier matches exactly
\* one agent: senior_support iff critical or enterprise, experienced_support
\* iff high and not enterprise, standard_support iff normal/low and not
\* enterprise.
C5_TicketMatchesExactlyOne ==
    script = "flock_cond" =>
        \A t \in GetByType(board, "SupportTicket") :
            (/\ t.priority \in {"critical", "high", "normal", "low"}
             /\ t.customer_tier \in {"enterprise", "premium", "standard"})
            => LET senior == t.priority = "critical" \/ t.customer_tier = "enterprise"
                   experienced == t.priority = "high" /\ t.customer_tier # "enterprise"
                   standard == t.priority \in {"normal", "low"}
                                  /\ t.customer_tier # "enterprise"
               IN  /\ Cardinality(TriggeredBy(t.id)) = 1
                   /\ ("senior_support" \in TriggeredBy(t.id)) <=> senior
                   /\ ("experienced_support" \in TriggeredBy(t.id)) <=> experienced
                   /\ ("standard_support" \in TriggeredBy(t.id)) <=> standard

\* A high-priority enterprise ticket was handled by senior_support and a
\* high-priority premium ticket by experienced_support.
C5_Witness ==
    /\ script = "flock_cond"
    /\ \E r \in ran, t \in board :
          /\ r.agent = "senior_support"
          /\ r.inputs = {t.id}
          /\ t.priority = "high" /\ t.customer_tier = "enterprise"
    /\ \E r \in ran, t \in board :
          /\ r.agent = "experienced_support"
          /\ r.inputs = {t.id}
          /\ t.priority = "high" /\ t.customer_tier = "premium"

\* C6: each ClassifiedTicket sent by parse_classification is delivered to
\* exactly one handler: senior_handler iff route_to is 'senior',
\* experienced_handler iff it is 'experienced', standard_handler otherwise;
\* each workflow run yields exactly one handler output.
C6_OneHandlerPerTicket ==
    script = "af_cond" =>
        /\ (trace # <<>> /\ Last(trace) = "parse_classification") =>
              /\ Len(inflight) = 1
              /\ inflight[1].msg.kind = "ClassifiedTicket"
              /\ inflight[1].to =
                    (CASE inflight[1].msg.route_to = "senior" -> "senior_handler"
                       [] inflight[1].msg.route_to = "experienced" -> "experienced_handler"
                       [] OTHER -> "standard_handler")
        /\ pc = "returned" =>
              /\ Len(outputs) = 1
              /\ outputs[1].by \in
                    {"senior_handler", "experienced_handler", "standard_handler"}

\* The second ticket's run returned with the output of experienced_handler.
C6_Witness ==
    /\ script = "af_cond"
    /\ pc = "returned"
    /\ runNo = 2
    /\ outputs[1].by = "experienced_handler"
    /\ outputs[1].route_to = "experienced"

\* The three agents between the dispatcher and the join of a fan-out script.
C7_Agents ==
    IF script = "af_parallel"
    THEN {"market_analyst", "tech_reviewer", "customer_researcher"}
    ELSE {"security_reviewer", "performance_reviewer", "style_reviewer"}

C7_Join == IF script = "af_parallel" THEN "aggregator" ELSE "merger"

\* C7: in the Agent Framework fan-out/fan-in workflows the dispatcher's request
\* is delivered to all three agents, and the aggregator/merger runs exactly
\* once per run, only after all three agents have responded, receiving
\* exactly one response from each, whatever the order the agents finish in.
C7_FanInOnce ==
    script \in {"af_parallel", "af_fanout"} =>
        /\ (trace # <<>> /\ Last(trace) = "dispatcher") =>
              /\ Len(inflight) = 3
              /\ {inflight[k].to : k \in DOMAIN inflight} = C7_Agents
        /\ \A k \in DOMAIN inflight :
              inflight[k].to = C7_Join =>
                 LET items == inflight[k].msg.items
                 IN  /\ Len(items) = 3
                     /\ {items[i].executor_id : i \in DOMAIN items} = C7_Agents
                     /\ \A a \in C7_Agents : Calls(a) = 1
        /\ Calls(C7_Join) <= 1
        /\ Calls(C7_Join) = 1 => \A a \in C7_Agents : Calls(a) = 1
        /\ pc = "returned" =>
              Calls(C7_Join) = 1 /\ Len(outputs) = 1 /\ outputs[1].by = C7_Join

\* The merger ran after the style reviewer answered first and the security
\* reviewer last.
C7_Witness ==
    /\ script = "af_fanout"
    /\ pc = "returned"
    /\ trace = <<"dispatcher", "style_reviewer", "performance_reviewer",
                 "security_reviewer", "merger">>
    /\ Len(outputs[1].parts) = 3

\* Invocations of an agent, scheduled or run.
Invocations(agent) ==
    {[agent |-> t.agent, inputs |-> t.inputs] : t \in {x \in tasks : x.agent = agent}}
        \cup {[agent |-> r.agent, inputs |-> r.inputs] : r \in {x \in ran : x.agent = agent}}

\* C8: in the Flock AND-gate example merge_decision is triggered only when a
\* SecurityReview, a PerformanceReview and a StyleReview are all on the
\* blackboard, never while one is missing, and one CodeSubmission leads to at
\* most one MergeDecision, whatever the order the reviewers finish in.
C8_MergeWaitsForAll ==
    script = "flock_fanout" =>
        /\ \A t \in Invocations("merge_decision") :
              /\ Cardinality(t.inputs) = 3
              /\ {a.type : a \in {x \in board : x.id \in t.inputs}}
                    = {"SecurityReview", "PerformanceReview", "StyleReview"}
        /\ Invocations("merge_decision") # {} =>
              \A ty \in {"SecurityReview", "PerformanceReview", "StyleReview"} :
                 GetByType(board, ty) # {}
        /\ Cardinality(Invocations("merge_decision")) <= 1
        /\ Cardinality(GetByType(board, "MergeDecision")) <= 1

\* All three reviews are in and the merge decision has been published.
C8_Witness ==
    /\ script = "flock_fanout"
    /\ pc = "done"
    /\ Cardinality(GetByType(board, "MergeDecision")) = 1
    /\ \E r \in ran : r.agent = "merge_decision" /\ Cardinality(r.inputs) = 3

\* C9: publishing one ProductInfo triggers each of the three analysts exactly
\* once for it; N published ProductInfo artifacts yield N analyses of each
\* kind, 3*N in all.
C9_ThreeAnalysesPerProduct ==
    script = "flock_parallel" =>
        /\ \A p \in GetByType(board, "ProductInfo") :
              \A g \in {"market_analyst", "tech_reviewer", "customer_researcher"} :
                 Cardinality({t \in Invocations(g) : p.id \in t.inputs}) = 1
        /\ pc = "done" =>
              LET n == Cardinality(GetByType(board, "ProductInfo"))
              IN  /\ Cardinality(GetByType(board, "MarketAnalysis")) = n
                  /\ Cardinality(GetByType(board, "TechnicalReview")) = n
                  /\ Cardinality(GetByType(board, "CustomerInsight")) = n
                  /\ Cardinality(board) = n + 3 * n
                  /\ Cardinality(ran) = 3 * n

\* Two products were published and six analyses are on the blackboard.
C9_Witness ==
    /\ script = "flock_parallel"
    /\ pc = "done"
    /\ Cardinality(GetByType(board, "ProductInfo")) = 2
    /\ Cardinality(board) = 8

\* C10: in both pipeline examples one input runs the outliner and then the
\* writer, each exactly once; the writer never starts before the outliner's
\* output exists, and the final draft/output is produced only by the writer.
C10_OutlinerThenWriter ==
    /\ script = "flock_pipeline" =>
          /\ Cardinality(Invocations("outliner")) <= 1
          /\ Cardinality(Invocations("writer")) <= 1
          /\ \A t \in Invocations("writer") :
                \E o \in GetByType(board, "ContentOutline") :
                   t.inputs = {o.id} /\ o.produced_by = "outliner"
          /\ \A d \in GetByType(board, "ContentDraft") : d.produced_by = "writer"
          /\ pc = "done" =>
                /\ {r.agent : r \in ran} = {"outliner", "writer"}
                /\ Cardinality(ran) = 2
                /\ Cardinality(GetByType(board, "ContentDraft")) = 1
    /\ script = "af_pipeline" =>
          /\ trace \in {<<>>, <<"outliner">>, <<"outliner", "writer">>}
          /\ \A k \in DOMAIN outputs : outputs[k].executor_id = "writer"
          /\ pc = "returned" =>
                trace = <<"outliner", "writer">> /\ Len(outputs) = 1

\* The Flock pipeline is idle: the writer has turned the outliner's outline
\* into the one draft on the blackboard.
C10_Witness ==
    /\ script = "flock_pipeline"
    /\ pc = "done"
    /\ \E r \in ran, o \in board, d \in board :
          /\ r.agent = "writer"
          /\ r.inputs = {o.id} /\ o.produced_by = "outliner"
          /\ r.output = d.id /\ d.type = "ContentDraft"

\* C11: create_client returns the Azure client iff the cleaned AZURE_API_KEY
\* and AZURE_API_BASE are both non-empty and the cleaned DEFAULT_MODEL starts
\* with "azure/", with the text after the first "/" as the deployment name;
\* in every other environment it returns the OpenAI client.
C11_CreateClientSelectsProvider ==
    (script = "af_hello" /\ pc # "start") =>
        LET key == _clean_env("AZURE_API_KEY")
            base == _clean_env("AZURE_API_BASE")
            model == _clean_env("DEFAULT_MODEL")
            azure == /\ key # <<>>
                     /\ base # <<>>
                     /\ Len(model) >= 2
                     /\ SubSeq(model, 1, 2) = <<"azure", "/">>
        IN  /\ client.kind \in {"azure", "openai"}
            /\ client.kind = "azure" <=> azure
            /\ client.kind = "azure" =>
                  /\ model = <<"azure", "/">> \o client.deployment_name
                  /\ client.api_key = key
                  /\ client.endpoint = base

\* The Azure client was created for a quoted DEFAULT_MODEL whose deployment
\* name holds a slash.
C11_Witness ==
    /\ script = "af_hello"
    /\ client.kind = "azure"
    /\ client.deployment_name = <<"gpt", "/", "v2">>

\* The check() calls made so far with the given label.
ChecksLabelled(label) == {checks[k] : k \in {j \in DOMAIN checks : checks[j].label = label}}

\* C12: the smoke test prints "All checks passed" iff every check() call made
\* during the run returned True: all_passed starts True, is AND-ed with each
\* result, and never becomes True again once a check has failed.
C12_AllPassedIffEveryCheck ==
    script = "smoke_test" =>
        /\ all_passed <=> \A k \in DOMAIN checks : checks[k].passed
        /\ pc = "done" =>
              /\ printed # <<>>
              /\ Last(printed) \in {"All checks passed", "Some checks failed"}
              /\ Last(printed) = "All checks passed"
                    <=> \A k \in DOMAIN checks : checks[k].passed

\* A run whose first check failed and whose last check passed ended with
\* "Some checks failed".
C12_Witness ==
    /\ script = "smoke_test"
    /\ pc = "done"
    /\ ~checks[1].passed
    /\ Last(checks).passed
    /\ Last(printed) = "Some checks failed"

\* C13: an exception raised by a framework's live call is caught and reported
\* as a FAIL line whose detail is the message truncated to at most 120
\* characters; the run goes on: the other framework's live call and the
\* summary still execute.
C13_LiveErrorIsReported ==
    script = "smoke_test" =>
        \A i \in DOMAIN live :
            live[i].outcome.kind = "error" =>
                LET label == IF live[i].framework = "flock" THEN "Flock LLM call"
                             ELSE "Agent Framework LLM call"
                    msg == live[i].outcome.text
                IN  /\ Cardinality(ChecksLabelled(label)) = 1
                    /\ \A c \in ChecksLabelled(label) :
                          /\ c.status = "FAIL"
                          /\ Len(c.detail) = (IF Len(msg) <= 120 THEN Len(msg) ELSE 120)
                          /\ c.detail = SubSeq(msg, 1, Len(c.detail))
                    /\ pc \in {"af_live", "summary", "done"}
                    /\ pc = "af_live" => ENABLED SmokeAFLive
                    /\ pc = "summary" => ENABLED SmokeSummary
                    /\ pc \in {"summary", "done"} =>
                          /\ ChecksLabelled("Agent Framework LLM call") # {}
                          /\ af_ready =>
                                \E j \in DOMAIN live : live[j].framework = "agent_framework"
                    /\ pc = "done" =>
                          Last(printed) \in {"All checks passed", "Some checks failed"}

\* The Flock call raised an exception with a message of 121 characters, the
\* Agent Framework call was made after it and answered, and the summary was
\* printed.
C13_Witness ==
    /\ script = "smoke_test"
    /\ pc = "done"
    /\ Len(live) = 2
    /\ live[1].framework = "flock"
    /\ live[1].outcome.kind = "error"
    /\ Len(live[1].outcome.text) = 121
    /\ live[2].outcome.kind = "reply"
    /\ \E c \in ChecksLabelled("Flock LLM call") : Len(c.detail) = 120

\* The variable's value, trimmed of whitespace and surrounding quotes, is
\* empty or one of the placeholder strings of the example configuration.
C19_Unset(name) ==
    clean_env(name) \in
        { <<>>, <<"sk-your-key-here">>, <<"your-azure-key-here">>, <<"your-key-here">>,
          <<"https://your-resource.cognitiveservices.azure.com/">> }

\* C19: in the smoke test a variable counts as set only if its trimmed value
\* is non-empty and no placeholder; a placeholder API key is treated like a
\* missing one: its credential check fails and no live call is attempted
\* with it.
C19_PlaceholderIsNotSet ==
    (script = "smoke_test" /\ pc \in {"live", "af_live", "summary", "done"}) =>
        LET openai == ~C19_Unset("OPENAI_API_KEY")
            azure == ~C19_Unset("AZURE_API_KEY") /\ ~C19_Unset("AZURE_API_BASE")
        IN  /\ \A c \in ChecksLabelled("OPENAI_API_KEY set") : c.passed <=> openai
            /\ \A c \in ChecksLabelled("Flock OpenAI key") : c.passed <=> openai
            /\ \A c \in ChecksLabelled("Flock Azure creds") : c.passed <=> azure
            /\ \A c \in ChecksLabelled("AZURE_API_KEY set") :
                  c.passed <=> ~C19_Unset("AZURE_API_KEY")
            /\ \A c \in ChecksLabelled("AZURE_API_BASE set") :
                  c.passed <=> ~C19_Unset("AZURE_API_BASE")
            /\ ChecksLabelled("OPENAI_API_KEY set") \cup ChecksLabelled("Flock OpenAI key")
                  \cup ChecksLabelled("Flock Azure creds") # {}
            /\ \A i \in DOMAIN live :
                  /\ live[i].provider = "openai" => openai
                  /\ live[i].provider = "azure" => azure

\* OPENAI_API_KEY holds a quoted placeholder after a blank while an OpenAI
\* model is selected: both OpenAI credential checks failed and the run ended
\* without a live call.
C19_Witness ==
    /\ script = "smoke_test"
    /\ pc = "done"
    /\ env.OPENAI_API_KEY = <<" ", "'", "your-key-here", "'">>
    /\ env.DEFAULT_MODEL = <<"gpt">>
    /\ \E c \in ChecksLabelled("OPENAI_API_KEY set") : ~c.passed
    /\ \E c \in ChecksLabelled("Flock OpenAI key") : ~c.passed
    /\ live = <<>>

\* C20: the smoke test skips the live section iff neither framework has
\* usable credentials; if exactly one is ready, that one makes its live call
\* and the other is reported as FAIL (credentials not configured); each
\* framework's live call is attempted at most once per run.
C20_LiveSectionSkippedIffNoneReady ==
    script = "smoke_test" =>
        LET azure == ~C19_Unset("AZURE_API_KEY") /\ ~C19_Unset("AZURE_API_BASE")
            openai == ~C19_Unset("OPENAI_API_KEY")
            azureModel == Len(clean_env("DEFAULT_MODEL")) >= 2
                             /\ SubSeq(clean_env("DEFAULT_MODEL"), 1, 2) = <<"azure", "/">>
            ready == [flock |-> IF azureModel THEN azure ELSE openai,
                      agent_framework |-> IF azure /\ azureModel THEN TRUE ELSE openai]
            label == [flock |-> "Flock LLM call",
                      agent_framework |-> "Agent Framework LLM call"]
            called(fw) == {i \in DOMAIN live : live[i].framework = fw}
            skipped == \E k \in DOMAIN printed : printed[k] = "Skipping live API checks"
        IN  /\ \A fw \in {"flock", "agent_framework"} : Cardinality(called(fw)) <= 1
            /\ pc \in {"summary", "done"} =>
                  /\ skipped <=> (~ready["flock"] /\ ~ready["agent_framework"])
                  /\ skipped =>
                        /\ live = <<>>
                        /\ \A fw \in {"flock", "agent_framework"} :
                              ChecksLabelled(label[fw]) = {}
                  /\ ~skipped =>
                        \A fw \in {"flock", "agent_framework"} :
                           /\ Cardinality(ChecksLabelled(label[fw])) = 1
                           /\ ready[fw] => Cardinality(called(fw)) = 1
                           /\ ~ready[fw] =>
                                 /\ called(fw) = {}
                                 /\ \A c \in ChecksLabelled(label[fw]) :
                                       /\ c.status = "FAIL"
                                       /\ c.detail = <<"credentials not configured">>

\* An Azure model is selected without Azure credentials but with an OpenAI
\* key: only the Agent Framework made its live call, Flock was reported as
\* not configured.
C20_Witness ==
    /\ script = "smoke_test"
    /\ pc = "done"
    /\ Len(live) = 1
    /\ live[1].framework = "agent_framework"
    /\ live[1].provider = "openai"
    /\ \E c \in ChecksLabelled("Flock LLM call") :
          c.detail = <<"credentials not configured">>

\* C14: the conditional script processes its tickets one at a time in list
\* order: run k is for ticket k, it starts only when run k-1 has completed and
\* its result line has been printed, and outside a run no message of the
\* workflow is in flight.
C14_TicketsOneAtATime ==
    script = "af_cond" =>
        /\ runNo <= Len(tickets)
        /\ \A k \in DOMAIN printed :
              IF k % 2 = 1
              THEN printed[k] = "Processing: " \o tickets[(k + 1) \div 2]
              ELSE printed[k] \in {"result", ""}
        /\ (pc = "running") => (runNo >= 1 /\ Len(printed) = 2 * runNo - 1)
        /\ (pc # "running") => (Len(printed) = 2 * runNo /\ inflight = <<>>)
        /\ (pc = "done") => (runNo = Len(tickets))

\* The run for the second ticket is under way, after the first ticket's
\* result was printed.
C14_Witness ==
    /\ script = "af_cond"
    /\ pc = "running"
    /\ runNo = 2
    /\ printed = <<"Processing: T-001", "result", "Processing: T-002">>
    /\ inflight # <<>>

\* C16: in the loop workflow the state key 'iteration' is 0 after seed, equals
\* the number of evaluate_draft steps so far (each for one writer response),
\* never exceeds 3, is the iteration written in the routing message, and
\* changes only by an evaluate_draft step, by exactly 1.
C16_IterationCountsEvaluations ==
    /\ [](script = "af_loop" /\ trace # <<>> =>
            /\ wfstate["iteration"] = Calls("evaluate")
            /\ Calls("evaluate") <= Calls("writer")
            /\ wfstate["iteration"] <= 3
            /\ (Last(trace) = "seed" => wfstate["iteration"] = 0)
            /\ (Last(trace) = "evaluate" =>
                   /\ Len(inflight) = 1
                   /\ inflight[1].msg.text =
                         <<"quality", "=", ToString(wfstate["quality"]), ",",
                           "iteration", "=", ToString(wfstate["iteration"])>>))
    /\ [][(/\ script = "af_loop"
           /\ trace # <<>>
           /\ trace' # <<>>
           /\ wfstate'["iteration"] # wfstate["iteration"])
          => (/\ trace' = Append(trace, "evaluate")
              /\ wfstate'["iteration"] = wfstate["iteration"] + 1)]_vars

\* The third writer response has been evaluated: the stored iteration is 3.
C16_Witness ==
    /\ script = "af_loop"
    /\ trace # <<>> /\ Last(trace) = "evaluate"
    /\ Calls("evaluate") = 3
    /\ wfstate["iteration"] = 3

\* The score evaluate_draft is to find in each reply of the writer.
C17_Expected(text) ==
    CASE text = << <<"draft">>, <<"QUALITY", ":", " ", "8">> >> -> 8
      [] text = << <<"draft">>, <<"QUALITY", ":", " ", "3">> >> -> 3
      [] text = << <<"draft">>, <<"Quality", ":", " ", "7", "/", "10">> >> -> 7
      [] text = << <<"draft">> >> -> 5
      [] text = << <<"quality", ":", " ", "9">>, <<"QUALITY", ":", " ", "high">> >> -> 5
      [] text = << <<"QUALITY", ":", "-2">>, <<"draft">> >> -> -2
      [] text = << <<"QUALITY", ":", " ", "3">>,
                   <<"QUALITY", ":", " ", "2", ":", " ", "8", "/", "10">>,
                   <<"done">> >> -> 8
      [] OTHER -> 5

\* C17: evaluate_draft stores the integer after the final ':' and before any
\* '/' of the last line containing 'QUALITY:' in any letter case, and 5 when
\* there is no such line or no integer there; a quality of 5 sends the draft
\* to refine_prompt while the iteration is below 3.
C17_QualityFromLastLine ==
    (script = "af_loop" /\ trace # <<>> /\ Last(trace) = "evaluate") =>
        /\ wfstate["quality"] = C17_Expected(wfstate["last_draft"])
        /\ (wfstate["quality"] = 5 /\ wfstate["iteration"] < 3)
              => (Len(inflight) = 1 /\ inflight[1].to = "refine_prompt")

\* A reply whose last QUALITY line holds no number, after an earlier line with
\* one, was scored 5 and sent back for refinement.
C17_Witness ==
    /\ script = "af_loop"
    /\ trace # <<>> /\ Last(trace) = "evaluate"
    /\ wfstate["last_draft"] =
          << <<"quality", ":", " ", "9">>, <<"QUALITY", ":", " ", "high">> >>
    /\ wfstate["quality"] = 5
    /\ inflight[1].to = "refine_prompt"

\* The route parse_classification is to find in each reply of the classifier.
C18_Expected(text) ==
    CASE text = << <<"ROUTE", ":", " ", "senior">> >> -> "senior"
      [] text = << <<"ROUTE", ":", " ", "experienced">> >> -> "experienced"
      [] text = << <<"ROUTE", ":", " ", "standard">> >> -> "standard"
      [] text = << <<"route", ":", "SENIOR">> >> -> "senior"
      [] text = << <<"ROUTE", ":", " ", "vip">>, <<"ROUTE", ":", " ", "senior">> >>
              -> "standard"
      [] text = << <<"ticket">>, <<"ROUTE", ":", " ", "experienced", " ">> >>
              -> "experienced"
      [] text = << <<"ROUTE", ":", " ", "senior", ":", "urgent">> >> -> "standard"
      [] OTHER -> "standard"

\* C18: parse_classification sends exactly one ClassifiedTicket; its route_to
\* is senior, experienced or standard: the lower-cased value after the last
\* ':' of the first line containing 'ROUTE:' when that is one of the three,
\* and standard otherwise, whatever later lines say.
C18_OneTicketWithValidRoute ==
    (script = "af_cond" /\ trace # <<>> /\ Last(trace) = "parse_classification") =>
        /\ Len(inflight) = 1
        /\ inflight[1].msg.kind = "ClassifiedTicket"
        /\ inflight[1].msg.route_to \in {"senior", "experienced", "standard"}
        /\ inflight[1].msg.route_to = C18_Expected(inflight[1].msg.original_text)

\* A reply naming an unknown route on its first ROUTE line and a valid one on
\* a later line was classified as standard.
C18_Witness ==
    /\ script = "af_cond"
    /\ trace # <<>> /\ Last(trace) = "parse_classification"
    /\ inflight[1].msg.original_text =
          << <<"ROUTE", ":", " ", "vip">>, <<"ROUTE", ":", " ", "senior">> >>
    /\ inflight[1].msg.route_to = "standard"

C21_PassingRunMadeBothLiveCalls ==
    (script = "smoke_test" /\ \E k \in DOMAIN printed : printed[k] = "All checks passed") =>
        /\ \A k \in DOMAIN printed : printed[k] # "Skipping live API checks"
        /\ Len(live) = 2
        /\ live[1].framework = "flock"
        /\ live[1].outcome.kind = "reply"
        /\ live[2].framework = "agent_framework"
        /\ live[2].outcome.kind = "reply"
        /\ \E k \in DOMAIN live[2].outcome.text : live[2].outcome.text[k] # " "

\* A run ended with 'All checks passed' after both live calls replied.
C21_Witness ==
    /\ script = "smoke_test"
    /\ pc = "done"
    /\ printed = <<"All checks passed">>
    /\ Len(live) = 2
    /\ live[1].outcome.text = <<"pong">>
    /\ live[2].outcome.text = <<" ", "pong", " ">>

\* C22: when DEFAULT_MODEL is not set or empty the smoke test never prints
\* 'All checks passed', whatever the keys are and however the live calls end.
C22_NoPassWithoutDefaultModel ==
    (script = "smoke_test" /\ env["DEFAULT_MODEL"] = <<>>) =>
        \A k \in DOMAIN printed : printed[k] # "All checks passed"

\* DEFAULT_MODEL is not set, the OpenAI key is real, both live calls replied
\* and 'DEFAULT_MODEL set' is the only check that failed: the run ended with
\* 'Some checks failed'.
C22_Witness ==
    /\ script = "smoke_test"
    /\ pc = "done"
    /\ env["DEFAULT_MODEL"] = <<>>
    /\ env["OPENAI_API_KEY"] = <<"sk-real">>
    /\ Len(live) = 2
    /\ live[1].outcome.text = <<"pong">>
    /\ live[2].outcome.text = <<" ", "pong", " ">>
    /\ \A k \in DOMAIN checks : checks[k].passed <=> checks[k].label # "DEFAULT_MODEL set"
    /\ printed = <<"Some checks failed">>

\* C23: in every environment the provider the smoke test reports for Agent
\* Framework, and uses for its live call, is the provider of the client each
\* Agent Framework example script constructs.
C23_SmokeProviderIsScriptProvider ==
    script = "smoke_test" =>
        \A s \in AFExampleScripts :
            /\ \A c \in ChecksLabelled("Agent Framework provider") :
                  c.detail = <<ModuleClient(s).kind>>
            /\ \A k \in DOMAIN live :
                  live[k].framework = "agent_framework"
                      => live[k].provider = ModuleClient(s).kind

====
